---- MODULE Spec2Model ----
(***************************************************************************)
(* Error tree model of github.com/domonda/go-errs: the node shapes, the   *)
(* traversal functions Root, Has, As and Type (iter.go), and the           *)
(* multi-error combination Combine / Uncombine.                            *)
(*                                                                         *)
(* An error value is a record [type, msg, match, errs]:                    *)
(*   type   the dynamic Go type of the value ("nil" for the nil error)     *)
(*   msg    the text of a leaf, the captured frames of a call-stack layer  *)
(*   match  the matchType field of a customAsError                         *)
(*   errs   the wrapped errors: none for a leaf, one for a type with       *)
(*          Unwrap() error, the slice for multiWrapper and multiError      *)
(*   params the params field, of a withCallStackFuncParams only            *)
(***************************************************************************)
EXTENDS Integers, Sequences, FiniteSets, TLC

VARIABLES stack, last

vars == <<stack, last>>

\* ------------------------------------------------------------------ bounds
\* Spec builds the trees of leaves, single-child and multi-child wrappers
\* that the traversal functions walk; SpecCombine builds the trees of
\* Sentinels, call-stack wrappers and multi-errors that Combine returns.

\* Number of error values held by the caller at the same time.
MaxStack == 3

\* Number of nodes of all the error trees held by the caller.
MaxNodes == 4

\* Number of distinct Sentinel texts e0, e1, ...
MaxSentinels == 2

\* Number of single-child wrappers (withCallStack, errWrapper) in the trees.
MaxWrappers == 2

\* Number of multiWrapper nodes in the trees.
MaxMultiWrappers == 2

\* Number of customAsError nodes in the trees.
MaxCustom == 1

\* Number of nil errors among the values and the children of the trees.
MaxNil == 1

\* The same bounds for SpecCombine.
MaxCombineStack == 4

MaxCombineNodes == 6

MaxCombineSentinels == 4

MaxCombineWrappers == 1

MaxCombineNil == 1

\* The same bounds for SpecWrap.
MaxWrapStack == 1

MaxWrapNodes == 5

MaxWrapSentinels == 1

MaxWrapWrappers == 4

MaxWrapNil == 1

\* SpecFormat: number of parameters of a formatted function call.
MaxFormatStack == 2

\* SpecFormat: number of values (strings, structs, secrets) in the parameters.
MaxFormatNodes == 4

\* SpecCycle and SpecConcurrent: number of errors the caller has allocated.
MaxCycleNodes == 3

\* SpecShare: number of variables and backing arrays of the caller, and
\* number of different Sentinel texts.
MaxShareCells == 6
MaxShareSentinels == 2

\* var FormatParamMaxLen = 5000, scaled down to the texts of the model.
FormatParamMaxLen == 4

\* ------------------------------------------------------------- error values

Nil == [type |-> "nil", msg |-> "", match |-> "", errs |-> <<>>]

\* type Sentinel string
Sentinel(text) == [type |-> "Sentinel", msg |-> text, match |-> "", errs |-> <<>>]

\* type errStruct struct{ Err string }
errStruct == [type |-> "errStruct", msg |-> "struct", match |-> "", errs |-> <<>>]

\* type customAsError struct{ msg, matchType string }, with an As(any) bool method
customAsError(matchType) ==
    [type |-> "customAsError", msg |-> "custom", match |-> matchType, errs |-> <<>>]

\* type errWrapper struct{ Wrapped error }, with Unwrap() error
errWrapper(wrapped) == [type |-> "errWrapper", msg |-> "", match |-> "", errs |-> <<wrapped>>]

\* type multiWrapper struct{ errs []error }, with Unwrap() []error
multiWrapper(errs) == [type |-> "multiWrapper", msg |-> "", match |-> "", errs |-> errs]

\* callStack(skip): the frames of the goroutine at the time of the call,
\* named after the function that captures them.
callStack(site) == "frames@" \o site

\* type withCallStack struct{ err error; callStack []uintptr }, as
\* WrapWithCallStackSkip makes it
withCallStack(err) ==
    [type |-> "withCallStack", msg |-> callStack("WrapWithCallStackSkip"),
     match |-> "", errs |-> <<err>>]

\* type withCallStackFuncParams struct{ withCallStack; params []any }
withCallStackFuncParams(err, frames, params) ==
    [type |-> "withCallStackFuncParams", msg |-> frames, match |-> "",
     errs |-> <<err>>, params |-> params]

\* type multiError []error
multiError(errs) == [type |-> "multiError", msg |-> "", match |-> "", errs |-> errs]

\* The matchType values of customAsError.As that the model uses.
MatchTypes == {"sentinel"}

\* The type parameters T the traversal functions are called with: two
\* concrete types and the interface type error.
TargetTypes == {"Sentinel", "customAsError", "error"}

\* case interface{ Unwrap() error }
HasUnwrap(err) ==
    err.type \in {"withCallStack", "withCallStackFuncParams", "errWrapper", "wrapError",
                  "dontLog"}

\* err.(LogDecisionMaker): error and ShouldLog() bool
IsLogDecisionMaker(err) == err.type \in {"testDecisionMaker", "dontLog"}

\* err.(callStackProvider): Unwrap() error and CallStack() []uintptr
IsCallStackProvider(err) == err.type \in {"withCallStack", "withCallStackFuncParams"}

\* err.(callStackParamsProvider): callStackProvider and CallStackParams()
IsCallStackParamsProvider(err) == err.type \in {"withCallStackFuncParams"}

\* p.CallStack()
CallStack(err) == err.msg

\* case interface{ Unwrap() []error }
HasUnwrapMulti(err) == err.type \in {"multiWrapper", "joinError"}

\* err.(interface{ As(any) bool })
HasAsMethod(err) == err.type \in {"customAsError", "multiError"}

\* x.Unwrap() of a single-child wrapper
Unwrap(err) == err.errs[1]

\* The type assertion err.(T): identity of the dynamic type for a concrete
\* T, implementation of the interface for an interface T (error is
\* implemented by every non-nil error, MultiError by multiError alone,
\* LogDecisionMaker by the types with a ShouldLog method).
TypeAssert(err, T) ==
    IF err = Nil THEN FALSE
    ELSE IF T = "error" THEN TRUE
    ELSE IF T = "MultiError" THEN err.type = "multiError"
    ELSE IF T = "LogDecisionMaker" THEN IsLogDecisionMaker(err)
    ELSE err.type = T

RECURSIVE Size(_)
RECURSIVE SizeAll(_)
\* Number of nodes of an error tree (the nil error has none).
Size(err) == IF err = Nil THEN 0 ELSE 1 + SizeAll(err.errs)
SizeAll(errs) == IF errs = <<>> THEN 0 ELSE Size(Head(errs)) + SizeAll(Tail(errs))

\* -------------------------------------------------- matching (errors.As)

RECURSIVE errorsAs(_, _)
RECURSIVE errorsAsFirst(_, _)
RECURSIVE AsMethod(_, _)

\* The value that err.As(&target) stores in a target of type *T, or Nil when
\* the method returns false.
\*   customAsError.As populates *Sentinel or *errStruct as matchType says;
\*   multiError.As delegates to errors.As on its children, in order.
AsMethod(err, T) ==
    IF err.type = "customAsError"
    THEN IF err.match = "sentinel" /\ T = "Sentinel" THEN Sentinel("matched-via-as:custom")
         ELSE IF err.match = "errStruct" /\ T = "errStruct"
              THEN [errStruct EXCEPT !.msg = "matched-via-as:custom"]
         ELSE Nil
    ELSE IF err.type = "multiError" THEN errorsAsFirst(err.errs, T)
    ELSE Nil

\* The loop over the children that keeps the match of the last child.
errorsAsLast(errs, T) ==
    IF errs = <<>> THEN Nil
    ELSE IF errorsAsFirst(Tail(errs), T) # Nil THEN errorsAsFirst(Tail(errs), T)
    ELSE IF Head(errs) # Nil THEN errorsAs(Head(errs), T)
    ELSE Nil

\* The loop over the children in errors.As and in multiError.As: the match
\* of the first child, in order, that has one; nil children are skipped.
errorsAsFirst(errs, T) ==
    IF errs = <<>> THEN Nil
    ELSE IF Head(errs) # Nil /\ errorsAs(Head(errs), T) # Nil THEN errorsAs(Head(errs), T)
    ELSE errorsAsFirst(Tail(errs), T)

\* errors.As that never consults an As method.
errorsAs_NoAsMethod(err, T) ==
    IF err = Nil THEN Nil
    ELSE IF TypeAssert(err, T) THEN err
    ELSE IF HasUnwrap(err) THEN errorsAs(Unwrap(err), T)
    ELSE IF HasUnwrapMulti(err) THEN errorsAsFirst(err.errs, T)
    ELSE Nil

\* errors.As(err, &target) with target of type T: the value assigned to
\* target, or Nil when As returns false.
errorsAs(err, T) ==
    IF err = Nil THEN Nil
    ELSE IF TypeAssert(err, T) THEN err
    ELSE IF HasAsMethod(err) /\ AsMethod(err, T) # Nil THEN AsMethod(err, T)
    ELSE IF HasUnwrap(err) THEN errorsAs(Unwrap(err), T)
    ELSE IF HasUnwrapMulti(err) THEN errorsAsFirst(err.errs, T)
    ELSE Nil

RECURSIVE errorsIs(_, _)
RECURSIVE errorsIsAny(_, _)

\* reflectlite.TypeOf(target).Comparable(): a slice type is not comparable.
Comparable(target) == target.type # "multiError"

\* err.(interface{ Is(error) bool }): multiError is the one type with an Is method.
HasIsMethod(err) == err.type \in {"multiError"}

\* The loops over the children in multiError.Is and in errors.Is.
errorsIsAny(errs, target) ==
    IF errs = <<>> THEN FALSE
    ELSE IF errorsIs(Head(errs), target) THEN TRUE
    ELSE errorsIsAny(Tail(errs), target)

\* errors.Is(err, target)
errorsIs(err, target) ==
    IF err = Nil \/ target = Nil THEN err = target
    ELSE IF Comparable(target) /\ err = target THEN TRUE
    ELSE IF HasIsMethod(err) /\ errorsIsAny(err.errs, target) THEN TRUE
    ELSE IF HasUnwrap(err) THEN (Unwrap(err) # Nil /\ errorsIs(Unwrap(err), target))
    ELSE IF HasUnwrapMulti(err) THEN errorsIsAny(err.errs, target)
    ELSE FALSE

\* --------------------------------------------------------------- traversal

RECURSIVE Root(_)
RECURSIVE RootFirst(_, _)
\* The loop of Root over the children of a multi-child node: the root of the
\* first non-nil child, the node itself when it has none.
RootFirst(err, errs) ==
    IF errs = <<>> THEN err
    ELSE IF Head(errs) # Nil THEN Root(Head(errs))
    ELSE RootFirst(err, Tail(errs))

Root(err) ==
    IF err = Nil THEN Nil
    ELSE IF HasUnwrap(err)
         THEN IF Unwrap(err) = Nil THEN err ELSE Root(Unwrap(err))
    ELSE IF HasUnwrapMulti(err) THEN RootFirst(err, err.errs)
    ELSE err

Has(err, T) == errorsAs(err, T) # Nil

RECURSIVE as(_, _)
RECURSIVE asEach(_, _)

\* asEach with the children visited last to first.
asEach_Reversed(errs, T) ==
    IF errs = <<>> THEN <<>>
    ELSE IF Head(errs) = Nil THEN asEach(Tail(errs), T)
    ELSE asEach(Tail(errs), T) \o as(Head(errs), T)

\* The range loop of as over the children of a multi-child node.
asEach(errs, T) ==
    IF errs = <<>> THEN <<>>
    ELSE IF Head(errs) = Nil THEN asEach(Tail(errs), T)
    ELSE as(Head(errs), T) \o asEach(Tail(errs), T)

\* as with the As method consulted also when the type assertion holds.
as_BothRules(err, T) ==
    LET own == (IF TypeAssert(err, T) THEN <<err>> ELSE <<>>)
               \o (IF HasAsMethod(err) /\ AsMethod(err, T) # Nil
                   THEN <<AsMethod(err, T)>> ELSE <<>>)
    IN  IF HasUnwrap(err)
        THEN IF Unwrap(err) = Nil THEN own ELSE own \o as(Unwrap(err), T)
        ELSE IF HasUnwrapMulti(err) THEN own \o asEach(err.errs, T)
        ELSE own

\* as with the As method consulted before the type assertion.
as_MatcherFirst(err, T) ==
    LET own == IF HasAsMethod(err) /\ AsMethod(err, T) # Nil THEN <<AsMethod(err, T)>>
               ELSE IF TypeAssert(err, T) THEN <<err>>
               ELSE <<>>
    IN  IF HasUnwrap(err)
        THEN IF Unwrap(err) = Nil THEN own ELSE own \o as(Unwrap(err), T)
        ELSE IF HasUnwrapMulti(err) THEN own \o asEach(err.errs, T)
        ELSE own

\* as appends to *errs; the model returns what one call appends.  One round
\* of the for loop is one unfolding of the recursion.
as(err, T) ==
    LET own == IF TypeAssert(err, T) THEN <<err>>
               ELSE IF HasAsMethod(err) /\ AsMethod(err, T) # Nil THEN <<AsMethod(err, T)>>
               ELSE <<>>
    IN  IF HasUnwrap(err)
        THEN IF Unwrap(err) = Nil THEN own ELSE own \o as(Unwrap(err), T)
        ELSE IF HasUnwrapMulti(err) THEN own \o asEach(err.errs, T)
        ELSE own

As(err, T) == IF err = Nil THEN <<>> ELSE as(err, T)

RECURSIVE Type(_, _)
RECURSIVE TypeAny(_, _)
\* The range loop of Type over the children of a multi-child node.
TypeAny(errs, T) ==
    IF errs = <<>> THEN FALSE
    ELSE IF Type(Head(errs), T) THEN TRUE
    ELSE TypeAny(Tail(errs), T)

\* Type that also accepts a match through the As method.
Type_WithMatcher(err, T) ==
    IF err = Nil THEN FALSE
    ELSE IF TypeAssert(err, T) THEN TRUE
    ELSE IF HasAsMethod(err) /\ AsMethod(err, T) # Nil THEN TRUE
    ELSE IF HasUnwrap(err) THEN Type(Unwrap(err), T)
    ELSE IF HasUnwrapMulti(err) THEN TypeAny(err.errs, T)
    ELSE FALSE

Type(err, T) ==
    IF err = Nil THEN FALSE
    ELSE IF TypeAssert(err, T) THEN TRUE
    ELSE IF HasUnwrap(err) THEN Type(Unwrap(err), T)
    ELSE IF HasUnwrapMulti(err) THEN TypeAny(err.errs, T)
    ELSE FALSE

RECURSIVE GoEqual(_, _)
\* The comparison a == b of two error interface values: "true", "false",
\* or "panic" (comparing uncomparable type) when both hold the same dynamic
\* type and that type is a slice (multiError) or a struct with a slice
\* field (multiWrapper).  Structs are compared field by field; a pointer
\* (withCallStack) is equal to itself only, and two pointers of the model
\* are the same pointer when they have the same content.
GoEqual(a, b) ==
    IF a.type # b.type THEN "false"
    ELSE IF a.type \in {"multiError", "multiWrapper"} THEN "panic"
    ELSE IF a.type = "errWrapper" THEN GoEqual(a.errs[1], b.errs[1])
    ELSE IF a = b THEN "true" ELSE "false"

RECURSIVE IsType(_, _)
RECURSIVE IsTypeLoop(_, _)
RECURSIVE IsTypeAny(_, _)

\* The range loop of IsType over the children of a multi-child node.
IsTypeAny(errs, ref) ==
    IF errs = <<>> THEN "false"
    ELSE IF IsType(Head(errs), ref) # "false" THEN IsType(Head(errs), ref)
    ELSE IsTypeAny(Tail(errs), ref)

\* The for loop of IsType: reflect.TypeOf(err) == t, then the type switch.
IsTypeLoop(err, ref) ==
    IF err = Nil THEN "false"
    ELSE IF err.type = ref.type THEN "true"
    ELSE IF HasUnwrap(err) THEN IsTypeLoop(Unwrap(err), ref)
    ELSE IF HasUnwrapMulti(err) THEN IsTypeAny(err.errs, ref)
    ELSE "false"

\* IsType(err, ref): "true", "false", or "panic" when err == ref panics.
IsType(err, ref) ==
    IF GoEqual(err, ref) # "false" THEN GoEqual(err, ref)
    ELSE IF err = Nil THEN "false"
    ELSE IsTypeLoop(err, ref)

\* ------------------------------------------------------------- construction

WrapWithCallStackSkip(err) == IF err = Nil THEN Nil ELSE withCallStack(err)

WrapWithCallStack(err) == WrapWithCallStackSkip(err)

RECURSIVE UnwrapCallStack(_)

\* UnwrapCallStack that removes one call-stack layer only.
UnwrapCallStack_Once(err) ==
    IF IsCallStackProvider(err) THEN Unwrap(err) ELSE err

UnwrapCallStack(err) ==
    IF IsCallStackProvider(err) THEN UnwrapCallStack(Unwrap(err)) ELSE err

\* wrapWithFuncParamsSkip that wraps a bare call-stack layer like any error.
wrapWithFuncParamsSkip_NoMerge(err, params) ==
    withCallStackFuncParams(err, callStack("wrapWithFuncParamsSkip"), params)

wrapWithFuncParamsSkip(err, params) ==
    IF ~IsCallStackParamsProvider(err) /\ IsCallStackProvider(err)
    THEN withCallStackFuncParams(Unwrap(err), CallStack(err), params)
    ELSE withCallStackFuncParams(err, callStack("wrapWithFuncParamsSkip"), params)

\* WrapWithFuncParams that wraps a nil *resultVar as well.
WrapWithFuncParams_NoNilCheck(resultVar, params) == wrapWithFuncParamsSkip(resultVar, params)

\* WrapWithFuncParams, WrapWithFuncParamsSkip and WrapWith0FuncParams ..
\* WrapWith10FuncParams: the value of *resultVar after the call.
WrapWithFuncParams(resultVar, params) ==
    IF resultVar # Nil THEN wrapWithFuncParamsSkip(resultVar, params) ELSE resultVar

\* multiError.Errors
Errors(m) == m.errs

RECURSIVE combined_NoSplice(_)
\* The loop of Combine without the splice of multi-errors.
combined_NoSplice(errs) ==
    IF errs = <<>> THEN <<>>
    ELSE IF Head(errs) = Nil THEN combined_NoSplice(Tail(errs))
    ELSE <<Head(errs)>> \o combined_NoSplice(Tail(errs))

RECURSIVE combined(_)
\* The loop of Combine that builds the combined list.
combined(errs) ==
    IF errs = <<>> THEN <<>>
    ELSE LET err == Head(errs)
             m == errorsAs(err, "multiError")
         IN  IF err = Nil THEN combined(Tail(errs))
             ELSE IF m # Nil THEN Errors(m) \o combined(Tail(errs))
             ELSE <<err>> \o combined(Tail(errs))

Combine(errs) ==
    LET c == combined(errs)
    IN  IF Len(c) = 0 THEN Nil
        ELSE IF Len(c) = 1 THEN c[1]
        ELSE multiError(c)

Uncombine(err) ==
    IF err = Nil THEN <<>>
    ELSE LET multi == errorsAs(err, "MultiError")
         IN  IF multi # Nil THEN Errors(multi) ELSE <<err>>

\* --------------------------------------------------------------- formatting
\* A text is a string of bytes.  A letter, digit or punctuation mark is a
\* one-byte character; "^" is the first byte and "~" the second byte of a
\* two-byte character.  A parameter value is a record of the shape of an
\* error value: a string (msg its text), a struct (msg its type name, errs
\* its fields F1, F2, ...) or a secret (errs its one payload).

stringValue(text) == [type |-> "string", msg |-> text, match |-> "", errs |-> <<>>]

structValue(name, fields) == [type |-> "struct", msg |-> name, match |-> "", errs |-> fields]

\* type secret struct{ val any }
secret(val) == [type |-> "secret", msg |-> "", match |-> "", errs |-> <<val>>]

KeepSecret(val) == secret(val)

\* secret.String
String(s) == "***REDACTED***"

\* The %T of a value.
TypeName(val) ==
    IF val.type = "string" THEN "string"
    ELSE IF val.type = "struct" THEN "errs." \o val.msg
    ELSE IF val.type = "secret" THEN "errs.secret"
    ELSE "<nil>"

\* GoString that formats the payload with %#v.
GoString_Value(s) ==
    TypeName(s.errs[1]) \o "(" \o (IF s.errs[1].type = "string" THEN s.errs[1].msg ELSE "") \o ")"

\* secret.GoString: fmt.Sprintf("%T(***REDACTED***)", s.val)
GoString(s) == TypeName(s.errs[1]) \o "(***REDACTED***)"

\* secret.PrettyPrint: what it writes to w.
PrettyPrint(s) == "***REDACTED***"

RECURSIVE Fprint(_)
RECURSIVE FprintFields(_, _)

\* Printer.Fprint that prints a secret like a struct with the field val.
Fprint_SecretAsStruct(val) ==
    IF val.type = "string" THEN "'" \o val.msg \o "'"
    ELSE IF val.type = "secret" THEN "secret{val:" \o Fprint(val.errs[1]) \o "}"
    ELSE IF val.type = "struct" THEN val.msg \o "{" \o FprintFields(val.errs, 1) \o "}"
    ELSE "nil"

\* Printer.Fprint(&b, param) of go-pretty, as the tests of FormatFunctionCall
\* show it: a string between quotes (' for the backquote), a struct (or pointer to a struct)
\* as Name{F1:value;F2:value}, and a value that implements pretty.Printable
\* by its PrettyPrint method, at any depth.
Fprint(val) ==
    IF val.type = "string" THEN "'" \o val.msg \o "'"
    ELSE IF val.type = "secret" THEN PrettyPrint(val)
    ELSE IF val.type = "struct" THEN val.msg \o "{" \o FprintFields(val.errs, 1) \o "}"
    ELSE "nil"

\* The fields of a struct from the i-th on.
FprintFields(fields, i) ==
    IF i > Len(fields) THEN ""
    ELSE (IF i > 1 THEN ";" ELSE "") \o "F" \o ToString(i) \o ":" \o Fprint(fields[i])
         \o FprintFields(fields, i + 1)

RECURSIVE FormatParams(_, _)
\* The loop of FormatFunctionCall over params from the i-th on.
FormatParams(params, i) ==
    IF i > Len(params) THEN ""
    ELSE (IF i > 1 THEN ", " ELSE "") \o Fprint(params[i]) \o FormatParams(params, i + 1)

FormatFunctionCall(function, params) == function \o "(" \o FormatParams(params, 1) \o ")"

\* ------------------------------------------------------ rendering of errors

\* callStack(1 + skip) of WrapWithCallStackSkip(skip, err): runtime.Callers
\* returns no frame when skip reaches beyond the stack of the goroutine.
callStackSkip(beyond, site) == IF beyond THEN "" ELSE callStack(site)

\* WrapWithCallStackSkip(skip, err) with a skip of the caller's choice.
WrapWithCallStackSkipBeyond(beyond, err) ==
    IF err = Nil THEN Nil
    ELSE [withCallStack(err) EXCEPT !.msg = callStackSkip(beyond, "WrapWithCallStackSkip")]

\* var TrimFilePathPrefix: the source directory of the build.
TrimFilePathPrefix == "/go/src/"

\* strings.TrimPrefix
TrimPrefix(s, prefix) ==
    IF Len(s) >= Len(prefix) /\ SubSeq(s, 1, Len(prefix)) = prefix
    THEN SubSeq(s, Len(prefix) + 1, Len(s))
    ELSE s

\* runtime.CallersFrames(stack).Next(): the first frame of the stack, or
\* the zero Frame and ok = false when the stack has no frame.
CallersFramesNext(frames) ==
    IF frames = ""
    THEN [Function |-> "", File |-> "", Line |-> 0, ok |-> FALSE]
    ELSE [Function |-> frames, File |-> "/go/src/errs/" \o frames \o ".go", Line |-> 1,
          ok |-> TRUE]

\* fmt.Sprintf("%s\n    %s:%d", function, strings.TrimPrefix(file, ...), line)
SprintfFrame(function, frame) ==
    function \o "\n    " \o TrimPrefix(frame.File, TrimFilePathPrefix) \o ":"
        \o ToString(frame.Line)

formatCallStack(e) ==
    LET frame == CallersFramesNext(CallStack(e))
    IN  SprintfFrame(frame.Function, frame)

\* The params of a layer as values of the printer: each one is a string.
ParamValues(params) == [i \in 1 .. Len(params) |-> stringValue(params[i])]

formatCallStackParams(e) ==
    LET frame == CallersFramesNext(CallStack(e))
    IN  SprintfFrame(FormatFunctionCall(frame.Function, ParamValues(e.params)), frame)

\* errors.Unwrap: the result of Unwrap() error, nil for any other error.
errorsUnwrap(err) == IF HasUnwrap(err) THEN Unwrap(err) ELSE Nil

RECURSIVE formatError_calls(_)
\* formatError, first loop: calls, in the order of collection.
formatError_calls(err) ==
    IF err = Nil THEN <<>>
    ELSE (IF IsCallStackParamsProvider(err) THEN <<formatCallStackParams(err)>>
          ELSE IF IsCallStackProvider(err) THEN <<formatCallStack(err)>>
          ELSE <<>>) \o formatError_calls(errorsUnwrap(err))

RECURSIVE formatError_firstWithoutStack(_)
\* formatError, first loop: firstWithoutStack.
formatError_firstWithoutStack(err) ==
    IF err = Nil THEN Nil
    ELSE IF IsCallStackProvider(err) THEN formatError_firstWithoutStack(errorsUnwrap(err))
    ELSE err

RECURSIVE formatError_writeForward(_, _)
\* formatError, second loop, written in the order of collection.
formatError_writeForward(calls, i) ==
    IF i < 1 THEN "" ELSE formatError_writeForward(calls, i - 1) \o calls[i] \o "\n"

RECURSIVE formatError_write(_, _)
\* formatError, second loop: calls[i], calls[i-1], ..., calls[1], a line each.
formatError_write(calls, i) ==
    IF i < 1 THEN "" ELSE calls[i] \o "\n" \o formatError_write(calls, i - 1)

RECURSIVE Error(_)
RECURSIVE ErrorJoin(_, _)
RECURSIVE formatError(_)

formatError(err) ==
    LET first == formatError_firstWithoutStack(err)
        calls == formatError_calls(err)
    IN  (IF first = Nil THEN "no wrapped error found" ELSE Error(first)) \o "\n"
            \o formatError_write(calls, Len(calls))

\* err.Error() of a non-nil error: the text of a leaf, errWrapper's
\* Wrapped.Error(), formatError of a call-stack layer, the lines of the
\* children of a multiError or of the result of errors.Join, and the text
\* that errors.New or fmt.Errorf made.
Error(err) ==
    IF IsCallStackProvider(err) THEN formatError(err)
    ELSE IF err.type \in {"errWrapper", "dontLog"} THEN Error(Unwrap(err))
    ELSE IF err.type \in {"multiError", "joinError"} THEN ErrorJoin(err.errs, 1)
    ELSE err.msg
ErrorJoin(errs, i) ==
    IF i > Len(errs) THEN ""
    ELSE (IF i > 1 THEN "\n" ELSE "") \o Error(errs[i]) \o ErrorJoin(errs, i + 1)

\* ------------------------------------------------------------------ panics
\* A recovered value is nil, an error, a []error, a string, a value of a
\* type with a String() method (stringer) or a value of another type (int).

\* []error{...}
errorList(errs) == [type |-> "[]error", msg |-> "", match |-> "", errs |-> errs]

\* type stringer string, with String()
stringer(text) == [type |-> "stringer", msg |-> text, match |-> "", errs |-> <<>>]

\* an int, msg its decimal digits
intValue(digits) == [type |-> "int", msg |-> digits, match |-> "", errs |-> <<>>]

\* case error: the dynamic type of val implements error.
IsError(val) == val.type \notin {"nil", "[]error", "string", "stringer", "int", "struct", "secret"}

\* errors.New(text)
errorsNew(text) == [type |-> "errorString", msg |-> text, match |-> "", errs |-> <<>>]

\* errors.Join(errs...): nil when every error is nil, else the non-nil
\* errors in order under one node with Unwrap() []error.
errorsJoin(errs) ==
    LET nonNil == SelectSeq(errs, LAMBDA e : e # Nil)
    IN  IF nonNil = <<>> THEN Nil
        ELSE [type |-> "joinError", msg |-> "", match |-> "", errs |-> nonNil]

\* fmt.Sprint(val) of a value that is no error: the string, String() of a
\* Stringer, the digits of an int.
Sprint(val) == val.msg

\* AsError that makes a new error of the text of an error.
AsError_NewFromText(val) ==
    IF val = Nil THEN Nil
    ELSE IF IsError(val) THEN errorsNew(Error(val))
    ELSE IF val.type = "[]error" THEN errorsJoin(val.errs)
    ELSE errorsNew(Sprint(val))

AsError(val) ==
    IF val = Nil THEN Nil
    ELSE IF IsError(val) THEN val
    ELSE IF val.type = "[]error" THEN errorsJoin(val.errs)
    ELSE IF val.type = "string" THEN errorsNew(val.msg)
    ELSE IF val.type = "stringer" THEN errorsNew(val.msg)
    ELSE errorsNew(Sprint(val))

\* fmt.Errorf(text + "%w" + rest, err): a wrapper of err with Unwrap()
\* error; the operand of %w that is nil is printed as a bad verb and
\* nothing is wrapped.
Errorf(text, err, rest) ==
    IF err = Nil THEN errorsNew(text \o "%!w(<nil>)" \o rest)
    ELSE [type |-> "wrapError", msg |-> text \o Error(err) \o rest, match |-> "",
          errs |-> <<err>>]

\* debug.Stack()
debugStack == "goroutine 1 [running]"

AsErrorWithDebugStack(val) ==
    IF AsError(val) = Nil THEN Nil
    ELSE Errorf("", AsError(val), "\n" \o debugStack)

\* The error that the panic handlers with params log or assign.
PanicErrWithFuncParams(p, params) ==
    wrapWithFuncParamsSkip(AsErrorWithDebugStack(p), params)

\* fmt.Errorf("function returning error (%s) panicked with: %w", *result, err)
PanickedWith(result, err) ==
    Errorf("function returning error (" \o Error(result) \o ") panicked with: ", err, "")

\* RecoverPanicAsError that overwrites *result with the panic.
RecoverPanicAsError_Overwrite(result, p) ==
    IF p = Nil THEN result ELSE AsErrorWithDebugStack(p)

\* RecoverPanicAsError after recover() returned p: the new *result.
RecoverPanicAsError(result, p) ==
    IF p = Nil THEN result
    ELSE IF result # Nil THEN PanickedWith(result, AsErrorWithDebugStack(p))
    ELSE AsErrorWithDebugStack(p)

\* RecoverPanicAsErrorWithFuncParams after recover() returned p.
RecoverPanicAsErrorWithFuncParams(result, p, params) ==
    IF p = Nil THEN result
    ELSE IF result # Nil THEN PanickedWith(result, PanicErrWithFuncParams(p, params))
    ELSE PanicErrWithFuncParams(p, params)

\* log.Printf(name + ": %s", err.Error())
LogMessage(name, p, params) == name \o ": " \o Error(PanicErrWithFuncParams(p, params))

\* A panic handler that returns after logging.
AfterLog_Return(name) == "returned"

\* Where a logging panic handler goes after log.Printf: LogPanicWithFuncParams
\* to panic(p), RecoverAndLogPanicWithFuncParams to its end.
AfterLog(name) == IF name = "LogPanicWithFuncParams" THEN "panic" ELSE "returned"

\* ----------------------------------------------------------------- logging

\* type testDecisionMaker bool, with ShouldLog() returning its value and
\* Error() its text
testDecisionMaker(b) ==
    [type |-> "testDecisionMaker", msg |-> IF b THEN "true" ELSE "false", match |-> "",
     errs |-> <<>>]

\* type dontLog struct{ error }
dontLog(err) == [type |-> "dontLog", msg |-> "", match |-> "", errs |-> <<err>>]

\* logDecisionMaker.ShouldLog()
ShouldLogMethod(err) == IF err.type = "dontLog" THEN FALSE ELSE err.msg = "true"

\* ShouldLog that asks no LogDecisionMaker.
ShouldLog_Default(err) == err # Nil

ShouldLog(err) ==
    IF err = Nil THEN FALSE
    ELSE IF errorsAs(err, "LogDecisionMaker") # Nil
         THEN ShouldLogMethod(errorsAs(err, "LogDecisionMaker"))
    ELSE TRUE

\* DontLog that returns its argument.
DontLog_Identity(err) == err

DontLog(err) == IF err = Nil THEN Nil ELSE dontLog(err)

\* ------------------------------------------------- traversal, step by step
\* The loops of Root, as, errors.As (Has), Type, IsType and UnwrapCallStack,
\* one iteration at a time, over errors held by reference: heap[i] is the
\* error with address i, and 0 is nil.  A pointer wrapper names the error it
\* wraps by its address, so a chain can lead back to a node already visited.

\* p := &errWrapper{Wrapped: the error at address next}
ptrErrWrapper(next) ==
    [type |-> "*errWrapper", msg |-> "", match |-> "", errs |-> <<>>, next |-> next]

\* &withCallStack{err: the error at address next}; the field is unexported
\* and is never assigned after WrapWithCallStack has returned.
ptrWithCallStack(next) ==
    [type |-> "*withCallStack", msg |-> "", match |-> "", errs |-> <<>>, next |-> next]

\* err.(interface{ Unwrap() error }) holds.
HeapHasUnwrap(node) == node.type \in {"*errWrapper", "*withCallStack"}

\* x.Unwrap() != nil for a node that has the method.
HeapUnwrapsToNonNil(node) == HeapHasUnwrap(node) /\ node.next # 0

\* err.(callStackProvider) holds.
HeapIsCallStackProvider(node) == node.type = "*withCallStack"

\* The type parameter T of As, Has and Type, and the ref of IsType.
TraversalT == "Sentinel"
IsTypeRef == Sentinel("e0")

\* A goroutine that runs no traversal.
Idle == [op |-> "", pc |-> "", root |-> 0, cur |-> 0, id |-> 0, bool |-> FALSE, list |-> <<>>]

\* The functions that walk a chain.
Traversals == {"Root", "As", "Has", "Type", "IsType", "UnwrapCallStack"}

\* The call op(root), up to the first evaluation of its loop condition:
\* IsType returns true for err == ref; Root, As, Has (errors.As), Type and
\* IsType return at once for a nil err.
TraversalStart(op, root, heap) ==
    LET t == [Idle EXCEPT !.op = op, !.root = root, !.cur = root, !.pc = "loop"]
    IN  CASE op = "UnwrapCallStack" -> t
          [] op = "IsType" /\ root # 0 /\ heap[root] = IsTypeRef ->
                [t EXCEPT !.pc = "returned", !.bool = TRUE]
          [] root = 0 -> [t EXCEPT !.pc = "returned"]
          [] OTHER -> t

\* What one iteration of the loop writes to the errors it walks: nothing.
\* No statement of the loops assigns through err, x or p; as appends to the
\* slice of its own call only.
TraversalHeap_Compress(t, heap) ==
    IF t.cur # 0 /\ t.root # t.cur /\ HeapHasUnwrap(heap[t.root])
    THEN [heap EXCEPT ![t.root] = [heap[t.root] EXCEPT !.next = t.cur]]
    ELSE heap

TraversalHeap(t, heap) == heap

\* One iteration of the loop of t.op with err = the error at address t.cur.
TraversalIter(t, heap) ==
    LET node == heap[t.cur]
        match == node.type = TraversalT
        return == [t EXCEPT !.pc = "returned"]
        unwrap == [t EXCEPT !.cur = node.next]
    IN  CASE t.op = "Root" ->
                IF HeapUnwrapsToNonNil(node) THEN unwrap ELSE [return EXCEPT !.id = t.cur]
          [] t.op = "As" ->
                LET errs == IF match THEN Append(t.list, t.cur) ELSE t.list
                IN  IF HeapUnwrapsToNonNil(node)
                    THEN [unwrap EXCEPT !.list = errs]
                    ELSE [return EXCEPT !.list = errs]
          [] t.op \in {"Has", "Type", "IsType"} ->
                IF match THEN [return EXCEPT !.bool = TRUE]
                ELSE IF HeapUnwrapsToNonNil(node) THEN unwrap
                ELSE return
          [] t.op = "UnwrapCallStack" ->
                IF t.cur # 0 /\ HeapIsCallStackProvider(node)
                THEN unwrap
                ELSE [return EXCEPT !.id = t.cur]

RECURSIVE TraversalRun(_, _, _)
\* The call t run on its own for at most fuel iterations.
TraversalRun(t, heap, fuel) ==
    IF t.pc # "loop" \/ fuel = 0 THEN t
    ELSE TraversalRun(TraversalIter(t, heap), heap, fuel - 1)

\* ------------------------------------------------------ storage of slices
\* type multiError []error: a multi-error is a slice, that is a reference to
\* a backing array.  mem[a] is the backing array with address a; a slice
\* value names its array by address (all slices here span their array).

backingArray(elems) == [type |-> "array", msg |-> "", match |-> "", errs |-> elems]

\* A slice of static type T, "multiError" or "[]error", over the array a.
slice(T, a) == [type |-> T, msg |-> "", match |-> "", errs |-> <<>>, array |-> a]

IsSlice(v) == "array" \in DOMAIN v

\* A cell of the memory holds an error: a Sentinel or a multiError.
HoldsError(v) == v.type = "Sentinel" \/ (IsSlice(v) /\ v.type = "multiError")

\* The error tree that a variable holds, its children read from the memory.
Deref(v, mem) == IF IsSlice(v) THEN multiError(mem[v.array].errs) ELSE v

\* Combine(errs...): combined is appended to from nil, so a result of two or
\* more errors is a multiError over a new backing array; the result is the
\* newest cell of the returned memory.
CombineAlloc(errs, mem) ==
    LET c == Combine(errs)
    IN  IF c.type = "multiError"
        THEN mem \o <<backingArray(c.errs), slice("multiError", Len(mem) + 1)>>
        ELSE Append(mem, c)

\* func (m multiError) Errors() []error { return m }: the conversion of m to
\* []error is a slice over the same backing array.
multiErrorErrors(m) == slice("[]error", m.array)

\* Uncombine(err) for a Sentinel or a multiError err: multi.Errors() for the
\* multiError, the new one-element slice []error{err} otherwise; the result
\* is the newest cell of the returned memory.
UncombineAlloc(err, mem) ==
    IF IsSlice(err)
    THEN Append(mem, multiErrorErrors(err))
    ELSE mem \o <<backingArray(<<err>>), slice("[]error", Len(mem) + 1)>>

\* list[i] = err
SetIndex(list, i, err, mem) ==
    [mem EXCEPT ![list.array] = backingArray([mem[list.array].errs EXCEPT ![i] = err])]

\* ------------------------------------------------------------ state machine
\* stack holds the error values of the calling program, the newest last.
\* last records the latest call of a function of the package: its name,
\* its type parameter, its arguments and what it returned.  For a deferred
\* call that handles a panic it also records the position pc inside the
\* deferred function, the value p that recover() returned, the panic that
\* is in flight in the goroutine, and the messages written to the Logger.
\* threads holds the traversals that run step by step, one per goroutine:
\* the function, the position pc, the argument root, the error cur that the
\* loop variable err refers to, and the result (an error id, a bool bool, a
\* list list).  Errors are referred to by their index in stack, 0 is nil.

NoCall == [op |-> "none", T |-> "", args |-> <<>>,
           retErr |-> Nil, retList |-> <<>>, retBool |-> FALSE, panics |-> FALSE,
           retStr |-> "", pc |-> "", p |-> Nil, inflight |-> Nil, log |-> <<>>,
           threads |-> <<Idle, Idle>>]

Top == stack[Len(stack)]

\* The n newest values of the stack, oldest first.
TopN(n) == SubSeq(stack, Len(stack) - n + 1, Len(stack))

\* The stack with its n newest values replaced by err.
Replace(n, err) == Append(SubSeq(stack, 1, Len(stack) - n), err)

RECURSIVE CountType(_, _)
RECURSIVE CountTypeAll(_, _)
\* Number of nodes of dynamic type t in an error tree.
CountType(err, t) ==
    IF err = Nil THEN 0
    ELSE (IF err.type = t THEN 1 ELSE 0) + CountTypeAll(err.errs, t)
CountTypeAll(errs, t) ==
    IF errs = <<>> THEN 0 ELSE CountType(Head(errs), t) + CountTypeAll(Tail(errs), t)

RECURSIVE CountNil(_)
\* Number of nil errors in a list of error trees, their children included.
CountNil(errs) ==
    IF errs = <<>> THEN 0
    ELSE (IF Head(errs) = Nil THEN 1 ELSE CountNil(Head(errs).errs)) + CountNil(Tail(errs))

Wrappers ==
    CountTypeAll(stack, "withCallStack") + CountTypeAll(stack, "errWrapper")
        + CountTypeAll(stack, "withCallStackFuncParams")

\* The bounds of the two specifications.
Bounds ==
    [stack |-> MaxStack, nodes |-> MaxNodes, sentinels |-> MaxSentinels,
     wrappers |-> MaxWrappers, nil |-> MaxNil]

CombineBounds ==
    [stack |-> MaxCombineStack, nodes |-> MaxCombineNodes, sentinels |-> MaxCombineSentinels,
     wrappers |-> MaxCombineWrappers, nil |-> MaxCombineNil]

WrapBounds ==
    [stack |-> MaxWrapStack, nodes |-> MaxWrapNodes, sentinels |-> MaxWrapSentinels,
     wrappers |-> MaxWrapWrappers, nil |-> MaxWrapNil]

\* The text of the i-th Sentinel: "e0", "e1", ...
SentinelText(i) == "e" \o ToString(i)

Init ==
    /\ stack = <<>>
    /\ last = NoCall

\* The caller declares an error variable that is nil.
NewNil(b) ==
    /\ Len(stack) < b.stack
    /\ CountNil(stack) < b.nil
    /\ stack' = Append(stack, Nil)
    /\ last' = NoCall

\* The caller makes a Sentinel: one of the texts in use or the next new one.
NewSentinel(b) ==
    \E i \in 0 .. (b.sentinels - 1) :
        /\ Len(stack) < b.stack
        /\ SizeAll(stack) < b.nodes
        /\ i <= CountTypeAll(stack, "Sentinel")
        /\ stack' = Append(stack, Sentinel(SentinelText(i)))
        /\ last' = NoCall

\* The caller makes a customAsError.
NewCustomAsError ==
    \E matchType \in MatchTypes :
        /\ Len(stack) < MaxStack
        /\ SizeAll(stack) < MaxNodes
        /\ CountTypeAll(stack, "customAsError") < MaxCustom
        /\ stack' = Append(stack, customAsError(matchType))
        /\ last' = NoCall

\* The caller wraps its newest error in an errWrapper.
NewErrWrapper(b) ==
    /\ Len(stack) > 0
    /\ SizeAll(stack) < b.nodes
    /\ Wrappers < b.wrappers
    /\ stack' = Replace(1, errWrapper(Top))
    /\ last' = NoCall

\* The caller puts its n newest errors into a multiWrapper.
NewMultiWrapper ==
    \E n \in 0 .. Len(stack) :
        /\ SizeAll(stack) < MaxNodes
        /\ Len(stack) - n < MaxStack
        /\ CountTypeAll(stack, "multiWrapper") < MaxMultiWrappers
        /\ stack' = Replace(n, multiWrapper(TopN(n)))
        /\ last' = NoCall

CallWrapWithCallStack(b) ==
    /\ Len(stack) > 0
    /\ SizeAll(stack) < b.nodes
    /\ Wrappers < b.wrappers
    /\ stack' = Replace(1, WrapWithCallStack(Top))
    /\ last' = [NoCall EXCEPT !.op = "WrapWithCallStack", !.args = <<Top>>,
                              !.retErr = WrapWithCallStack(Top)]

\* Combine(errs...) on the n newest errors; the caller keeps the result.
CallCombine(b) ==
    \E n \in 0 .. Len(stack) :
        /\ Len(stack) - n < b.stack
        /\ SizeAll(Replace(n, Combine(TopN(n)))) <= b.nodes
        /\ stack' = Replace(n, Combine(TopN(n)))
        /\ last' = [NoCall EXCEPT !.op = "Combine", !.args = TopN(n),
                                  !.retErr = Combine(TopN(n))]

\* The caller inspects the one error it holds.
CallUncombine ==
    /\ Len(stack) = 1
    /\ last' = [NoCall EXCEPT !.op = "Uncombine", !.args = <<Top>>,
                              !.retList = Uncombine(Top)]
    /\ UNCHANGED stack

CallRoot ==
    /\ Len(stack) = 1
    /\ last' = [NoCall EXCEPT !.op = "Root", !.args = <<Top>>, !.retErr = Root(Top)]
    /\ UNCHANGED stack

CallAs ==
    \E T \in TargetTypes :
        /\ Len(stack) = 1
        /\ last' = [NoCall EXCEPT !.op = "As", !.T = T, !.args = <<Top>>,
                                  !.retList = As(Top, T)]
        /\ UNCHANGED stack

CallHas ==
    \E T \in TargetTypes :
        /\ Len(stack) = 1
        /\ last' = [NoCall EXCEPT !.op = "Has", !.T = T, !.args = <<Top>>,
                                  !.retBool = Has(Top, T)]
        /\ UNCHANGED stack

CallType ==
    \E T \in TargetTypes :
        /\ Len(stack) = 1
        /\ last' = [NoCall EXCEPT !.op = "Type", !.T = T, !.args = <<Top>>,
                                  !.retBool = Type(Top, T)]
        /\ UNCHANGED stack

\* The ref errors IsType is called with: nil, a Sentinel, and zero or
\* fresh values of the other types (errStruct{}, errWrapper{},
\* multiWrapper{}, New("ref")).
IsTypeRefs ==
    {Nil, Sentinel(SentinelText(0)), errStruct, errWrapper(Nil), multiWrapper(<<>>),
     withCallStack(Sentinel("ref"))}

CallIsType ==
    \E ref \in IsTypeRefs :
        /\ Len(stack) = 1
        /\ last' = [NoCall EXCEPT !.op = "IsType", !.args = <<Top, ref>>,
                                  !.retBool = (IsType(Top, ref) = "true"),
                                  !.panics = (IsType(Top, ref) = "panic")]
        /\ UNCHANGED stack

\* The params a function passes to WrapWithFuncParams: none or one.
ParamLists == {<<>>, <<"p0">>}

\* defer WrapWithFuncParams(&err, params...) runs on the caller's newest
\* error variable, which may be nil.
CallWrapWithFuncParams(b) ==
    \E params \in ParamLists :
        /\ Len(stack) > 0
        /\ SizeAll(Replace(1, WrapWithFuncParams(Top, params))) <= b.nodes
        /\ stack' = Replace(1, WrapWithFuncParams(Top, params))
        /\ last' = [NoCall EXCEPT !.op = "WrapWithFuncParams", !.args = <<Top, params>>,
                                  !.retErr = WrapWithFuncParams(Top, params)]

CallUnwrapCallStack ==
    /\ Len(stack) = 1
    /\ last' = [NoCall EXCEPT !.op = "UnwrapCallStack", !.args = <<Top>>,
                              !.retErr = UnwrapCallStack(Top)]
    /\ UNCHANGED stack

\* The target types of the caller's own errors.As calls.
AsTargetTypes == TargetTypes \cup {"MultiError"}

\* The caller calls errors.As(err, &target) with target of type T.
CallErrorsAs ==
    \E T \in AsTargetTypes :
        /\ Len(stack) = 1
        /\ last' = [NoCall EXCEPT !.op = "errors.As", !.T = T, !.args = <<Top>>,
                                  !.retErr = errorsAs(Top, T),
                                  !.retBool = (errorsAs(Top, T) # Nil)]
        /\ UNCHANGED stack

\* The caller calls errors.Is(err, target) with one of the Sentinels or nil.
CallErrorsIs(b) ==
    \E target \in {Sentinel(SentinelText(i)) : i \in 0 .. (b.sentinels - 1)} \cup {Nil} :
        /\ Len(stack) = 1
        /\ last' = [NoCall EXCEPT !.op = "errors.Is", !.args = <<Top, target>>,
                                  !.retBool = errorsIs(Top, target)]
        /\ UNCHANGED stack

Next ==
    \/ NewNil(Bounds)
    \/ NewSentinel(Bounds)
    \/ NewCustomAsError
    \/ NewErrWrapper(Bounds)
    \/ NewMultiWrapper
    \/ CallWrapWithCallStack(Bounds)
    \/ CallRoot
    \/ CallAs
    \/ CallHas
    \/ CallType
    \/ CallIsType

\* Traversal of trees of leaves, single-child and multi-child wrappers.
Spec == Init /\ [][Next]_vars

NextCombine ==
    \/ NewNil(CombineBounds)
    \/ NewSentinel(CombineBounds)
    \/ CallWrapWithCallStack(CombineBounds)
    \/ CallCombine(CombineBounds)
    \/ CallUncombine
    \/ CallErrorsAs
    \/ CallErrorsIs(CombineBounds)
    \/ CallRoot
    \/ CallAs
    \/ CallHas
    \/ CallType

\* Combination of Sentinels and call-stack wrapped errors, and the
\* traversal of the combined errors.
SpecCombine == Init /\ [][NextCombine]_vars

\* The suffix of a truncated parameter, "...(TRUNCATED)" with the ellipsis
\* as one character of three bytes: "^" stands for the first byte of a
\* character of several bytes and "~" for each byte that continues it.
TruncationMarker == "^~~(TRUNCATED)"

\* Cuts after k bytes without looking at the character the cut falls in.
truncateAt_NoBoundary(s, k) == k

RECURSIVE truncateAt(_, _)
\* The length of the longest prefix of s of at most k bytes that does not
\* end inside a character.
truncateAt(s, k) ==
    IF k > 0 /\ SubSeq(s, k + 1, k + 1) = "~" THEN truncateAt(s, k - 1) ELSE k

\* A rendered parameter of more than FormatParamMaxLen bytes is truncated
\* at a character boundary and suffixed with the marker.
truncateParam(s) ==
    IF Len(s) > FormatParamMaxLen
    THEN SubSeq(s, 1, truncateAt(s, FormatParamMaxLen)) \o TruncationMarker
    ELSE s

RECURSIVE FormatParamsMaxLen(_, _)
FormatParamsMaxLen(params, i) ==
    IF i > Len(params) THEN ""
    ELSE (IF i > 1 THEN ", " ELSE "") \o truncateParam(Fprint(params[i]))
             \o FormatParamsMaxLen(params, i + 1)

\* FormatFunctionCall of the version that declares FormatParamMaxLen.
FormatFunctionCallMaxLen(function, params) ==
    function \o "(" \o FormatParamsMaxLen(params, 1) \o ")"

\* The texts of the string values: an ASCII password, a text of four
\* one-byte characters, and a text with a two-byte character in the middle.
Texts == {"pw", "abcd", "ab^~c"}

\* The caller has a string value.
NewStringValue ==
    \E text \in Texts :
        /\ Len(stack) < MaxFormatStack
        /\ SizeAll(stack) < MaxFormatNodes
        /\ stack' = Append(stack, stringValue(text))
        /\ last' = NoCall

\* The caller puts its n newest values into the fields of a struct S.
NewStructValue ==
    \E n \in 1 .. Len(stack) :
        /\ SizeAll(stack) < MaxFormatNodes
        /\ stack' = Replace(n, structValue("S", TopN(n)))
        /\ last' = NoCall

CallKeepSecret ==
    /\ Len(stack) > 0
    /\ SizeAll(stack) < MaxFormatNodes
    /\ stack' = Replace(1, KeepSecret(Top))
    /\ last' = [NoCall EXCEPT !.op = "KeepSecret", !.args = <<Top>>,
                              !.retErr = KeepSecret(Top)]

\* FormatFunctionCall("f", params...) with the caller's values as params.
CallFormatFunctionCall ==
    /\ last' = [NoCall EXCEPT !.op = "FormatFunctionCall", !.args = stack,
                              !.retStr = FormatFunctionCall("f", stack)]
    /\ UNCHANGED stack

\* FormatFunctionCall("f", params...) with FormatParamMaxLen in force.
CallFormatFunctionCallMaxLen ==
    /\ last' = [NoCall EXCEPT !.op = "FormatFunctionCallMaxLen", !.args = stack,
                              !.retStr = FormatFunctionCallMaxLen("f", stack)]
    /\ UNCHANGED stack

\* fmt.Print(secret), fmt.Printf("%v", secret)
CallString ==
    /\ Len(stack) > 0
    /\ Top.type = "secret"
    /\ last' = [NoCall EXCEPT !.op = "String", !.args = <<Top>>, !.retStr = String(Top)]
    /\ UNCHANGED stack

\* fmt.Printf("%#v", secret)
CallGoString ==
    /\ Len(stack) > 0
    /\ Top.type = "secret"
    /\ last' = [NoCall EXCEPT !.op = "GoString", !.args = <<Top>>, !.retStr = GoString(Top)]
    /\ UNCHANGED stack

CallPrettyPrint ==
    /\ Len(stack) > 0
    /\ Top.type = "secret"
    /\ last' = [NoCall EXCEPT !.op = "PrettyPrint", !.args = <<Top>>,
                              !.retStr = PrettyPrint(Top)]
    /\ UNCHANGED stack

NextFormat ==
    \/ NewStringValue
    \/ NewStructValue
    \/ CallKeepSecret
    \/ CallFormatFunctionCall
    \/ CallFormatFunctionCallMaxLen
    \/ CallString
    \/ CallGoString
    \/ CallPrettyPrint

\* Secrets and the formatting of function calls.
SpecFormat == Init /\ [][NextFormat]_vars

\* WrapWithCallStackSkip(skip, err) with a skip within or beyond the stack
\* of the goroutine.
CallWrapWithCallStackSkip(b) ==
    \E beyond \in BOOLEAN :
        /\ Len(stack) > 0
        /\ SizeAll(stack) < b.nodes
        /\ Wrappers < b.wrappers
        /\ stack' = Replace(1, WrapWithCallStackSkipBeyond(beyond, Top))
        /\ last' = [NoCall EXCEPT !.op = "WrapWithCallStackSkip", !.args = <<Top>>,
                                  !.retErr = WrapWithCallStackSkipBeyond(beyond, Top)]

\* err.Error() on the one error the caller holds.
CallError ==
    /\ Len(stack) = 1
    /\ Top # Nil
    /\ last' = [NoCall EXCEPT !.op = "Error", !.args = <<Top>>, !.retStr = Error(Top)]
    /\ UNCHANGED stack

NextError ==
    \/ NewSentinel(WrapBounds)
    \/ NewErrWrapper(WrapBounds)
    \/ CallWrapWithCallStack(WrapBounds)
    \/ CallWrapWithCallStackSkip(WrapBounds)
    \/ CallWrapWithFuncParams(WrapBounds)
    \/ CallError

\* The Error() text of wrapped errors.
SpecError == Init /\ [][NextError]_vars

\* The values a function panics with: errors, lists of errors, a string,
\* a stringer and an int.
PanicValues ==
    {Sentinel(SentinelText(0)), withCallStack(Sentinel(SentinelText(0))),
     errorList(<<>>), errorList(<<Nil>>),
     errorList(<<Sentinel(SentinelText(0)), Nil, Sentinel(SentinelText(1))>>),
     stringValue("pw"), stringer("str"), intValue("666")}

\* The values of the error result at the time the deferred call runs.
ResultValues == {Nil, Sentinel(SentinelText(0)), Sentinel(SentinelText(1))}

Handlers ==
    {"LogPanicWithFuncParams", "RecoverAndLogPanicWithFuncParams",
     "RecoverPanicAsError", "RecoverPanicAsErrorWithFuncParams"}

CallAsError ==
    \E val \in PanicValues \cup {Nil} :
        /\ last' = [NoCall EXCEPT !.op = "AsError", !.args = <<val>>, !.retErr = AsError(val)]
        /\ UNCHANGED stack

\* A function with a deferred panic handler ends, by a panic with the
\* value p or without a panic (p nil), its error result being set or nil:
\* the deferred call starts.  Its arguments are recorded with the value
\* the function panicked with.
DeferredCallStarts ==
    \E name \in Handlers, result \in ResultValues, p \in PanicValues \cup {Nil},
       params \in ParamLists :
        /\ last.pc \in {"", "returned", "panicking"}
        /\ name = "RecoverPanicAsError" => params = <<>>
        /\ stack' = <<result>>
        /\ last' = [NoCall EXCEPT !.op = name, !.args = <<result, params, p>>,
                                  !.pc = "recover", !.inflight = p]

\* p := recover(); if p == nil { return }
Recover ==
    /\ last.pc = "recover"
    /\ last' = [last EXCEPT !.p = last.inflight, !.inflight = Nil,
                            !.pc = IF last.inflight = Nil THEN "returned"
                                   ELSE IF last.op \in {"RecoverPanicAsError",
                                                        "RecoverPanicAsErrorWithFuncParams"}
                                        THEN "assign"
                                   ELSE "log"]
    /\ UNCHANGED stack

\* The rest of RecoverPanicAsError and RecoverPanicAsErrorWithFuncParams.
AssignResult ==
    /\ last.pc = "assign"
    /\ stack' = <<IF last.op = "RecoverPanicAsError"
                  THEN RecoverPanicAsError(Top, last.p)
                  ELSE RecoverPanicAsErrorWithFuncParams(Top, last.p, last.args[2])>>
    /\ last' = [last EXCEPT !.pc = "returned"]

\* log.Printf of the logging handlers.
LogPanic ==
    /\ last.pc = "log"
    /\ last' = [last EXCEPT !.log = Append(last.log, LogMessage(last.op, last.p, last.args[2])),
                            !.pc = AfterLog(last.op)]
    /\ UNCHANGED stack

\* panic(p) of LogPanicWithFuncParams.
Repanic ==
    /\ last.pc = "panic"
    /\ last' = [last EXCEPT !.inflight = last.p, !.pc = "panicking"]
    /\ UNCHANGED stack

NextPanic ==
    \/ CallAsError
    \/ DeferredCallStarts
    \/ Recover
    \/ AssignResult
    \/ LogPanic
    \/ Repanic

\* Conversion of recovered values to errors and the deferred panic handlers.
SpecPanic == Init /\ [][NextPanic]_vars

\* The caller makes a testDecisionMaker.
NewTestDecisionMaker(b) ==
    \E value \in BOOLEAN :
        /\ Len(stack) < b.stack
        /\ SizeAll(stack) < b.nodes
        /\ stack' = Append(stack, testDecisionMaker(value))
        /\ last' = NoCall

CallDontLog(b) ==
    /\ Len(stack) > 0
    /\ SizeAll(stack) < b.nodes
    /\ stack' = Replace(1, DontLog(Top))
    /\ last' = [NoCall EXCEPT !.op = "DontLog", !.args = <<Top>>, !.retErr = DontLog(Top)]

CallShouldLog ==
    /\ Len(stack) = 1
    /\ last' = [NoCall EXCEPT !.op = "ShouldLog", !.args = <<Top>>,
                              !.retBool = ShouldLog(Top)]
    /\ UNCHANGED stack

NextLog ==
    \/ NewNil(WrapBounds)
    \/ NewSentinel(WrapBounds)
    \/ NewTestDecisionMaker(WrapBounds)
    \/ NewErrWrapper(WrapBounds)
    \/ CallDontLog(WrapBounds)
    \/ CallWrapWithCallStack(WrapBounds)
    \/ CallWrapWithFuncParams(WrapBounds)
    \/ CallShouldLog

\* The decision whether an error is logged.
SpecLog == Init /\ [][NextLog]_vars

\* No traversal is between its call and its return.
Quiescent == \A k \in 1 .. Len(last.threads) : last.threads[k].pc # "loop"

\* The caller makes a Sentinel.
NewSentinelRef ==
    /\ Quiescent
    /\ Len(stack) < MaxCycleNodes
    /\ stack' = Append(stack, Sentinel(SentinelText(0)))
    /\ last' = NoCall

\* The caller makes p := &errWrapper{Wrapped: w}, w nil or one of its errors.
NewPtrErrWrapper ==
    \E w \in 0 .. Len(stack) :
        /\ Quiescent
        /\ Len(stack) < MaxCycleNodes
        /\ stack' = Append(stack, ptrErrWrapper(w))
        /\ last' = NoCall

\* The caller assigns p.Wrapped = w, w nil or one of its errors, p included.
SetWrapped ==
    \E p \in 1 .. Len(stack), w \in 0 .. Len(stack) :
        /\ Quiescent
        /\ stack[p].type = "*errWrapper"
        /\ stack[p].next # w
        /\ stack' = [stack EXCEPT ![p] = ptrErrWrapper(w)]
        /\ last' = NoCall

\* The caller wraps one of its errors with WrapWithCallStack.
NewPtrWithCallStack ==
    \E w \in 1 .. Len(stack) :
        /\ Quiescent
        /\ Len(stack) < MaxCycleNodes
        /\ stack' = Append(stack, ptrWithCallStack(w))
        /\ last' = NoCall

\* Goroutine k calls one of the traversal functions with the caller's
\* newest error, or with nil.
CallTraversal(k) ==
    \E op \in Traversals, root \in {0, Len(stack)} :
        /\ last.threads[k].pc = ""
        /\ last' = [last EXCEPT !.op = "traversal",
                                !.threads[k] = TraversalStart(op, root, stack)]
        /\ UNCHANGED stack

\* Goroutine k runs one iteration of the loop of its traversal.
TraversalStep(k) ==
    /\ last.threads[k].pc = "loop"
    /\ last' = [last EXCEPT !.threads[k] = TraversalIter(last.threads[k], stack)]
    /\ stack' = TraversalHeap(last.threads[k], stack)

NextCycle ==
    \/ NewSentinelRef
    \/ NewPtrErrWrapper
    \/ SetWrapped
    \/ NewPtrWithCallStack
    \/ CallTraversal(1)
    \/ TraversalStep(1)

\* One goroutine walks chains that the caller has built and rewired; every
\* call that has started goes on taking steps.
SpecCycle == Init /\ [][NextCycle]_vars /\ WF_vars(TraversalStep(1))

NextConcurrent ==
    \/ NewSentinelRef
    \/ NewPtrErrWrapper
    \/ SetWrapped
    \/ NewPtrWithCallStack
    \/ \E k \in 1 .. 2 : CallTraversal(k)
    \/ \E k \in 1 .. 2 : TraversalStep(k)

\* Two goroutines walk the same error at the same time.
SpecConcurrent == Init /\ [][NextConcurrent]_vars

\* The caller makes a Sentinel.
NewSentinelVar ==
    \E i \in 0 .. (MaxShareSentinels - 1) :
        /\ Len(stack) < MaxShareCells
        /\ stack' = Append(stack, Sentinel(SentinelText(i)))
        /\ last' = NoCall

\* m := Combine(a, b) for two of the caller's errors.
CallCombineAlloc ==
    \E a \in 1 .. Len(stack), b \in 1 .. Len(stack) :
        /\ HoldsError(stack[a]) /\ HoldsError(stack[b])
        /\ Len(stack) + 2 <= MaxShareCells
        /\ stack' = CombineAlloc(<<Deref(stack[a], stack), Deref(stack[b], stack)>>, stack)
        /\ last' = [NoCall EXCEPT !.op = "Combine",
                                  !.args = <<Deref(stack[a], stack), Deref(stack[b], stack)>>]

\* list := Uncombine(err) for one of the caller's errors.
CallUncombineAlloc ==
    \E a \in 1 .. Len(stack) :
        /\ HoldsError(stack[a])
        /\ Len(UncombineAlloc(stack[a], stack)) <= MaxShareCells
        /\ stack' = UncombineAlloc(stack[a], stack)
        /\ last' = [NoCall EXCEPT !.op = "Uncombine", !.args = <<Deref(stack[a], stack)>>,
                                  !.retList = stack'[stack'[Len(stack')].array].errs]

\* list[i] = err for a list that Uncombine has returned and one of the
\* caller's Sentinels.
OverwriteElement ==
    \E l \in 1 .. Len(stack), e \in 1 .. Len(stack) :
        /\ IsSlice(stack[l]) /\ stack[l].type = "[]error"
        /\ stack[e].type = "Sentinel"
        /\ \E i \in 1 .. Len(stack[stack[l].array].errs) :
              /\ stack[stack[l].array].errs[i] # stack[e]
              /\ stack' = SetIndex(stack[l], i, stack[e], stack)
              /\ last' = [NoCall EXCEPT !.op = "list[i] = err", !.args = <<stack[e]>>]

\* err.Error() for one of the caller's errors.
CallErrorOf ==
    \E a \in 1 .. Len(stack) :
        /\ HoldsError(stack[a])
        /\ last' = [NoCall EXCEPT !.op = "Error", !.args = <<Deref(stack[a], stack)>>,
                                  !.retStr = Error(Deref(stack[a], stack))]
        /\ UNCHANGED stack

NextShare ==
    \/ NewSentinelVar
    \/ CallCombineAlloc
    \/ CallUncombineAlloc
    \/ OverwriteElement
    \/ CallErrorOf

\* Multi-errors, the lists that Uncombine returns for them, and the caller's
\* assignments to the elements of those lists.
SpecShare == Init /\ [][NextShare]_vars

NextWrap ==
    \/ NewNil(WrapBounds)
    \/ NewSentinel(WrapBounds)
    \/ NewErrWrapper(WrapBounds)
    \/ CallWrapWithCallStack(WrapBounds)
    \/ CallWrapWithFuncParams(WrapBounds)
    \/ CallUnwrapCallStack
    \/ CallRoot

\* Wrapping with call stacks and function parameters, and unwrapping.
SpecWrap == Init /\ [][NextWrap]_vars

\* ------------------------------------------------------------------ claims

\* The argument of the latest call of a one-argument function.
Arg == last.args[1]

RECURSIVE PreOrder(_)
RECURSIVE PreOrderAll(_)
\* The nodes of a tree in depth-first pre-order: a node, then the nodes
\* under its single child or under its children in slice order; nil
\* children are left out.
PreOrder(err) ==
    IF err = Nil THEN <<>>
    ELSE IF HasUnwrap(err) \/ HasUnwrapMulti(err) THEN <<err>> \o PreOrderAll(err.errs)
    ELSE <<err>>
PreOrderAll(errs) ==
    IF errs = <<>> THEN <<>> ELSE PreOrder(Head(errs)) \o PreOrderAll(Tail(errs))

\* The match of one node for T: the node when its type is T, else the value
\* its As method stores, else none.
NodeMatch(n, T) ==
    IF TypeAssert(n, T) THEN <<n>>
    ELSE IF HasAsMethod(n) /\ AsMethod(n, T) # Nil THEN <<AsMethod(n, T)>>
    ELSE <<>>

RECURSIVE MatchesOf(_, _)
\* The matches of a list of nodes, in the order of the list.
MatchesOf(nodes, T) ==
    IF nodes = <<>> THEN <<>> ELSE NodeMatch(Head(nodes), T) \o MatchesOf(Tail(nodes), T)

\* The error of the example of the testable properties:
\* Combine(Wrap(e0), e1, Combine(e2, e3)).
ExampleErr ==
    Combine(<<WrapWithCallStack(Sentinel("e0")), Sentinel("e1"),
              Combine(<<Sentinel("e2"), Sentinel("e3")>>)>>)

\* C1: for err = Combine(Wrap(e0), e1, Combine(e2, e3)) with four distinct
\* Sentinel leaves, As[Sentinel](err) returns exactly [e0, e1, e2, e3].
C1_AsExampleReturnsAllFour ==
    (last.op = "As" /\ last.T = "Sentinel" /\ Arg = ExampleErr)
        => last.retList = <<Sentinel("e0"), Sentinel("e1"), Sentinel("e2"), Sentinel("e3")>>

\* C2: As[T](err) returns the matches of the nodes of err in depth-first
\* pre-order: a node before its descendants, the children of a multi-child
\* node in slice order with nil children skipped, nothing deduplicated, and
\* the empty list for the nil error.
C2_AsIsPreOrder ==
    last.op = "As" => last.retList = MatchesOf(PreOrder(Arg), last.T)

\* As was called on a multi-child node with a nil child, and returned the
\* same Sentinel twice: once from under a wrapper, once from a later child.
C2_Witness ==
    /\ last.op = "As"
    /\ last.T = "Sentinel"
    /\ Arg.type = "multiWrapper"
    /\ CountNil(Arg.errs) > 0
    /\ last.retList = <<Sentinel("e0"), Sentinel("e0")>>

RECURSIVE CountMatching(_, _)
\* Number of nodes of a list that match T by their type or by their As method.
CountMatching(nodes, T) ==
    IF nodes = <<>> THEN 0
    ELSE (IF TypeAssert(Head(nodes), T)
             \/ (HasAsMethod(Head(nodes)) /\ AsMethod(Head(nodes), T) # Nil)
          THEN 1 ELSE 0) + CountMatching(Tail(nodes), T)

\* C3 as stated: a node whose own type is T and whose As method also
\* succeeds for a T-typed target contributes two results, the node itself
\* and the value stored by its As method.
C3_BothRulesFire ==
    (last.op = "As" /\ TypeAssert(Arg, last.T)
        /\ HasAsMethod(Arg) /\ AsMethod(Arg, last.T) # Nil)
        => /\ Len(last.retList) >= 2
           /\ last.retList[1] = Arg
           /\ last.retList[2] = AsMethod(Arg, last.T)

\* C3 amended: the As method is the fallback of the type assertion, so every
\* visited node contributes at most one result: As[T] returns as many values
\* as there are visited nodes that match by their type or by their As method.
C3_OneResultPerNode ==
    last.op = "As" => Len(last.retList) = CountMatching(PreOrder(Arg), last.T)

\* As was called for a type that the argument has and that its As method
\* could populate as well, and returned one value.
C3_Witness ==
    /\ last.op = "As"
    /\ TypeAssert(Arg, last.T)
    /\ HasAsMethod(Arg)
    /\ AsMethod(Arg, last.T) # Nil
    /\ Len(last.retList) = 1

\* C4: when the type of a node matches T directly its As method is not
\* called: the node contributes the node itself and nothing else, so the
\* result is the node followed by the matches of its descendants.
C4_TypeMatchSkipsAsMethod ==
    (last.op = "As" /\ TypeAssert(Arg, last.T) /\ HasAsMethod(Arg))
        => /\ Head(last.retList) = Arg
           /\ Tail(last.retList) = MatchesOf(Tail(PreOrder(Arg)), last.T)

\* As[error] was called on a multi-error, whose As method would store its
\* first child in an error target, and returned the multi-error alone.
C4_Witness ==
    /\ last.op = "As"
    /\ last.T = "error"
    /\ Arg.type = "multiError"
    /\ AsMethod(Arg, "error") = Arg.errs[1]
    /\ last.retList = <<Arg>>

\* C5: Has[T](err) is true if and only if As[T](err) is non-empty.
C5_HasIffAsNonEmpty ==
    last.op = "Has" => (last.retBool <=> As(Arg, last.T) # <<>>)

\* Has[Sentinel] was true for a tree without any Sentinel node: the match
\* came from the As method of a customAsError below a wrapper.
C5_Witness ==
    /\ last.op = "Has"
    /\ last.T = "Sentinel"
    /\ last.retBool
    /\ CountType(Arg, "Sentinel") = 0
    /\ Arg.type \in {"errWrapper", "withCallStack", "multiWrapper"}

RECURSIVE AnyOfType(_, _)
\* Some node of the list has the dynamic type T.
AnyOfType(nodes, T) ==
    IF nodes = <<>> THEN FALSE
    ELSE Head(nodes).type = T \/ AnyOfType(Tail(nodes), T)

RECURSIVE AnyAsserts(_, _)
\* The type assertion to T holds for some node of the list.
AnyAsserts(nodes, T) ==
    IF nodes = <<>> THEN FALSE
    ELSE TypeAssert(Head(nodes), T) \/ AnyAsserts(Tail(nodes), T)

\* C6 as stated: Type[T](err) is true if and only if some node reached
\* through single-child chains and the children of multi-child nodes has a
\* type identical to T.
C6_TypeIffIdenticalType ==
    last.op = "Type" => (last.retBool <=> AnyOfType(PreOrder(Arg), last.T))

\* C6 amended: Type[T](err) is true if and only if the type assertion to T
\* holds for some reached node (its type is T for a concrete T, it
\* implements T for an interface T); the As method of a node never makes
\* it true, and Type[T](nil) is false.
C6_TypeIffAssertion ==
    last.op = "Type" => (last.retBool <=> AnyAsserts(PreOrder(Arg), last.T))

\* Type[Sentinel] was false for a tree whose customAsError matches Sentinel
\* through its As method.
C6_Witness ==
    /\ last.op = "Type"
    /\ last.T = "Sentinel"
    /\ ~last.retBool
    /\ Arg # Nil
    /\ Has(Arg, "Sentinel")

\* C7: for err = Combine(Wrap(e0), e1, Combine(e2, e3)) with Sentinel
\* leaves, Type[Sentinel](err) is true.
C7_TypeExampleIsTrue ==
    (last.op = "Type" /\ last.T = "Sentinel" /\ Arg = ExampleErr) => last.retBool

RECURSIVE RootOpaque(_)
\* The root as the claim states it: the end of the single-child chain, a
\* multi-child node being returned as it is.
RootOpaque(err) ==
    IF err = Nil THEN Nil
    ELSE IF HasUnwrap(err) /\ Unwrap(err) # Nil THEN RootOpaque(Unwrap(err))
    ELSE err

\* C8: Root(nil) is nil; Root follows the single-child unwrap to the node
\* that offers none and returns it; a multi-child node is opaque to Root,
\* which returns the node itself and never descends into its children.
C8_RootStopsAtMultiChild ==
    last.op = "Root" => last.retErr = RootOpaque(Arg)

\* The arguments of the latest call that are not nil, in order.
NonNilArgs == SelectSeq(last.args, LAMBDA e : e # Nil)

\* C9: Combine returns nil when no argument is non-nil, the argument itself
\* when exactly one is non-nil, and a multi-error when two or more are.
C9_CombineCollapse ==
    last.op = "Combine"
        => /\ Len(NonNilArgs) = 0 => last.retErr = Nil
           /\ Len(NonNilArgs) = 1 => last.retErr = NonNilArgs[1]
           /\ Len(NonNilArgs) >= 2 => last.retErr.type = "multiError"

RECURSIVE FlatChildren(_)
\* The child list as the claim states it: nil arguments skipped, the
\* children of an argument that is itself a multi-error in its place, every
\* other argument as it is.
FlatChildren(errs) ==
    IF errs = <<>> THEN <<>>
    ELSE IF Head(errs) = Nil THEN FlatChildren(Tail(errs))
    ELSE IF Head(errs).type = "multiError" THEN Head(errs).errs \o FlatChildren(Tail(errs))
    ELSE <<Head(errs)>> \o FlatChildren(Tail(errs))

\* C10: the children of Combine(errs...) are the arguments in order, nil
\* arguments skipped, an argument that is itself a multi-error replaced by
\* its children, every other argument appended as it is.
C10_CombineChildrenInOrder ==
    last.op = "Combine"
        => LET want == FlatChildren(last.args)
           IN  IF Len(want) = 0 THEN last.retErr = Nil
               ELSE IF Len(want) = 1 THEN last.retErr = want[1]
               ELSE last.retErr = multiError(want)

RECURSIVE NoNested(_)
\* No multi-error of the tree has a direct child that is a multi-error.
NoNested(err) ==
    IF err = Nil THEN TRUE
    ELSE /\ err.type = "multiError"
            => \A i \in 1 .. Len(err.errs) : err.errs[i].type # "multiError"
         /\ \A i \in 1 .. Len(err.errs) : NoNested(err.errs[i])

\* C11: after any sequence of Combine calls on nil, leaf errors, wrapped
\* errors and results of earlier Combine calls, no multi-error returned by
\* Combine, or held by the caller, has a direct child that is a multi-error.
C11_NoNestedMultiError ==
    /\ \A i \in 1 .. Len(stack) : NoNested(stack[i])
    /\ last.op = "Combine" => NoNested(last.retErr)

\* Combine was called with a multi-error among several arguments and
\* returned a multi-error with more children than that argument has.
C11_Witness ==
    /\ last.op = "Combine"
    /\ last.retErr.type = "multiError"
    /\ \E i \in 1 .. Len(last.args) :
           /\ last.args[i].type = "multiError"
           /\ Len(last.retErr.errs) > Len(last.args[i].errs)

\* C12: Uncombine(nil) is nil (the empty list), Uncombine of a multi-error
\* is the list of its children, and Uncombine of any error that is not
\* itself a multi-error is the list of that one error.
C12_UncombineCases ==
    last.op = "Uncombine"
        => last.retList = IF Arg = Nil THEN <<>>
                          ELSE IF Arg.type = "multiError" THEN Arg.errs
                          ELSE <<Arg>>

\* The children of a multi-error that errors.Is matches with the target.
IsSomeChild(m, target) == \E i \in 1 .. Len(m.errs) : errorsIs(m.errs[i], target)

\* v is the match of the first child of m, in order, that errors.As
\* matches with a target of type T; Nil when no child has a match.
IsFirstChildMatch(m, T, v) ==
    \/ /\ v = Nil
       /\ \A i \in 1 .. Len(m.errs) : errorsAs(m.errs[i], T) = Nil
    \/ \E i \in 1 .. Len(m.errs) :
           /\ errorsAs(m.errs[i], T) # Nil
           /\ v = errorsAs(m.errs[i], T)
           /\ \A j \in 1 .. (i - 1) : errorsAs(m.errs[j], T) = Nil

\* C13 as stated: errors.Is on a multi-error is true iff it is true of some
\* child, and errors.As on a multi-error assigns the match of the first
\* child, in order, whose own errors.As succeeds, for every target.
C13_MatchingDelegatesToChildren ==
    /\ (last.op = "errors.Is" /\ Arg.type = "multiError")
           => (last.retBool <=> IsSomeChild(Arg, last.args[2]))
    /\ (last.op = "errors.As" /\ Arg.type = "multiError")
           => IsFirstChildMatch(Arg, last.T, last.retErr)

\* C13 amended: errors.Is on a multi-error is true iff it is true of some
\* child; errors.As assigns the multi-error itself when the multi-error is
\* assignable to the target (a target of type error or MultiError), and
\* otherwise the match of the first child whose own errors.As succeeds.
C13_MatchingDelegatesUnlessAssignable ==
    /\ (last.op = "errors.Is" /\ Arg.type = "multiError")
           => (last.retBool <=> IsSomeChild(Arg, last.args[2]))
    /\ (last.op = "errors.As" /\ Arg.type = "multiError")
           => IF TypeAssert(Arg, last.T) THEN last.retErr = Arg
              ELSE IsFirstChildMatch(Arg, last.T, last.retErr)

\* errors.As with a Sentinel target was called on a multi-error whose first
\* child is a call-stack wrapper, and assigned the Sentinel below it, which
\* differs from the Sentinel that is the second child.
C13_Witness ==
    /\ last.op = "errors.As"
    /\ last.T = "Sentinel"
    /\ Arg.type = "multiError"
    /\ Arg.errs[1].type = "withCallStack"
    /\ last.retErr = Unwrap(Arg.errs[1])
    /\ Arg.errs[2].type = "Sentinel"
    /\ Arg.errs[2] # last.retErr

\* C14: IsType(err, ref) is true when err == ref and false when err is nil
\* and ref is not; otherwise it is true iff some node reached through
\* single-child chains and the children of multi-child nodes has the dynamic
\* type of ref.
C14_IsTypeWalksTree ==
    last.op = "IsType"
        => /\ ~last.panics
           /\ last.retBool <=> IF Arg = last.args[2] THEN TRUE
                               ELSE IF Arg = Nil THEN FALSE
                               ELSE AnyOfType(PreOrder(Arg), last.args[2].type)

RECURSIVE Chain(_)
\* The nodes of the single-child chain of err, outermost first.
Chain(err) ==
    IF err # Nil /\ HasUnwrap(err) /\ Unwrap(err) # Nil
    THEN <<err>> \o Chain(Unwrap(err))
    ELSE <<err>>

\* C15: UnwrapCallStack(err) returns the first node of the chain that is
\* not a call-stack layer, every node above it being a call-stack layer
\* (with or without parameters) and everything below it left in place; for
\* e0 under a context layer under a stack layer it returns the context
\* layer while Root returns e0; UnwrapCallStack(nil) is nil.
C15_UnwrapCallStackStripsTopRun ==
    last.op = "UnwrapCallStack"
        => /\ \E k \in 1 .. Len(Chain(Arg)) :
                  /\ last.retErr = Chain(Arg)[k]
                  /\ ~IsCallStackProvider(Chain(Arg)[k])
                  /\ \A j \in 1 .. (k - 1) : IsCallStackProvider(Chain(Arg)[j])
           /\ (/\ Len(Chain(Arg)) = 3
               /\ IsCallStackProvider(Arg)
               /\ Chain(Arg)[2].type = "errWrapper"
               /\ Chain(Arg)[3].type = "Sentinel")
                  => /\ last.retErr = Chain(Arg)[2]
                     /\ Root(Arg) = Chain(Arg)[3]
           /\ Arg = Nil => last.retErr = Nil

\* UnwrapCallStack was called on a stack layer over a parameterized stack
\* layer over a context layer over another stack layer, and returned the
\* context layer with the stack layer below it in place.
C15_Witness ==
    /\ last.op = "UnwrapCallStack"
    /\ Len(Chain(Arg)) = 5
    /\ Arg.type = "withCallStack"
    /\ Chain(Arg)[2].type = "withCallStackFuncParams"
    /\ last.retErr.type = "errWrapper"
    /\ last.retErr = Chain(Arg)[3]
    /\ Unwrap(last.retErr).type = "withCallStack"

\* C16: attaching parameters to an error whose outermost node is a bare
\* call-stack layer yields one parameterized layer in its place: it holds
\* the frames the bare layer captured, its child is the bare layer's child,
\* and the bare layer is not part of the resulting chain.
C16_ReWrapReplacesBareLayer ==
    (last.op = "WrapWithFuncParams" /\ Arg.type = "withCallStack")
        => /\ last.retErr.type = "withCallStackFuncParams"
           /\ CallStack(last.retErr) = CallStack(Arg)
           /\ last.retErr.params = last.args[2]
           /\ Unwrap(last.retErr) = Unwrap(Arg)
           /\ Len(Chain(last.retErr)) = Len(Chain(Arg))
           /\ \A k \in 1 .. Len(Chain(last.retErr)) : Chain(last.retErr)[k] # Arg
           /\ Top = last.retErr

\* Parameters were attached to a bare call-stack layer over a Sentinel: the
\* result holds the parameters and the frames WrapWithCallStackSkip captured.
C16_Witness ==
    /\ last.op = "WrapWithFuncParams"
    /\ Arg.type = "withCallStack"
    /\ Unwrap(Arg).type = "Sentinel"
    /\ last.retErr.params = <<"p0">>
    /\ CallStack(last.retErr) = callStack("WrapWithCallStackSkip")
    /\ Len(Chain(last.retErr)) = 2

\* C17: wrapping a nil error creates no node: WrapWithCallStack(nil) is
\* nil, and WrapWithFuncParams and its variants leave a nil *resultVar nil.
C17_WrapNilIsNil ==
    (last.op \in {"WrapWithCallStack", "WrapWithFuncParams"} /\ Arg = Nil)
        => /\ last.retErr = Nil
           /\ Top = Nil

\* WrapWithFuncParams ran with parameters on a nil *resultVar and left it nil.
C17_Witness ==
    /\ last.op = "WrapWithFuncParams"
    /\ last.args[2] = <<"p0">>
    /\ Arg = Nil
    /\ last.retErr = Nil
    /\ stack = <<Nil>>

\* sub occurs in the text s.
Contains(s, sub) ==
    \E i \in 1 .. (Len(s) - Len(sub) + 1) : SubSeq(s, i, i + Len(sub) - 1) = sub

RECURSIVE Blank(_)
\* The value with the payload of every secret replaced by the empty string.
Blank(val) ==
    IF val.type = "secret" THEN secret(stringValue(""))
    ELSE IF val.type = "struct"
         THEN structValue(val.msg, [i \in 1 .. Len(val.errs) |-> Blank(val.errs[i])])
    ELSE val

BlankAll(vals) == [i \in 1 .. Len(vals) |-> Blank(vals[i])]

RECURSIVE SecretsOf(_)
RECURSIVE SecretsOfAll(_)
\* The secrets among the parameters and the fields of struct parameters at
\* any depth.
SecretsOf(val) ==
    IF val.type = "secret" THEN <<val>>
    ELSE IF val.type = "struct" THEN SecretsOfAll(val.errs)
    ELSE <<>>
SecretsOfAll(vals) ==
    IF vals = <<>> THEN <<>> ELSE SecretsOf(Head(vals)) \o SecretsOfAll(Tail(vals))

\* C18 as stated: for every payload v, a call of FormatFunctionCall with
\* KeepSecret(v) among its parameters, or in a field of a struct parameter
\* at any depth, contains the redaction marker, never contains the
\* rendering of v, and is independent of the payloads.
C18_NeverContainsPayload ==
    (last.op = "FormatFunctionCall" /\ SecretsOfAll(last.args) # <<>>)
        => /\ Contains(last.retStr, "***REDACTED***")
           /\ \A i \in 1 .. Len(SecretsOfAll(last.args)) :
                  ~Contains(last.retStr, Fprint(SecretsOfAll(last.args)[i].errs[1]))
           /\ last.retStr = FormatFunctionCall("f", BlankAll(last.args))

\* C18 amended: the call contains the redaction marker and returns the
\* string it returns when the payload of every secret is replaced by
\* another one, so nothing in it comes from a payload.
C18_IndependentOfPayload ==
    (last.op = "FormatFunctionCall" /\ SecretsOfAll(last.args) # <<>>)
        => /\ Contains(last.retStr, "***REDACTED***")
           /\ last.retStr = FormatFunctionCall("f", BlankAll(last.args))

\* FormatFunctionCall was called with a struct whose field is a struct
\* whose field is the secret of a password.
C18_Witness ==
    /\ last.op = "FormatFunctionCall"
    /\ last.args = <<structValue("S", <<structValue("S", <<KeepSecret(stringValue("pw"))>>)>>)>>
    /\ last.retStr = "f(S{F1:S{F1:***REDACTED***}})"

\* C19 as stated: String, GoString and PrettyPrint of a secret all return
\* the same fixed redaction marker, whatever the payload and its type.
C19_AllRenderingsAreTheMarker ==
    last.op \in {"String", "GoString", "PrettyPrint"} => last.retStr = "***REDACTED***"

\* The value of the same type with nothing in it.
ZeroOf(val) ==
    IF val.type = "string" THEN stringValue("")
    ELSE IF val.type = "struct" THEN structValue(val.msg, <<>>)
    ELSE secret(Nil)

\* C19 amended: String and PrettyPrint of a secret are the redaction
\* marker; GoString is the marker in parentheses after the name of the
\* payload's type, so it contains the marker and is the same for every
\* payload of the same type.
C19_RenderingsHideTheValue ==
    /\ last.op \in {"String", "PrettyPrint"} => last.retStr = "***REDACTED***"
    /\ last.op = "GoString"
           => /\ Contains(last.retStr, "(***REDACTED***)")
              /\ last.retStr = GoString(KeepSecret(ZeroOf(Arg.errs[1])))

\* GoString of the secret of a password returned the marker with the type.
C19_Witness ==
    /\ last.op = "GoString"
    /\ Arg = KeepSecret(stringValue("pw"))
    /\ last.retStr = "string(***REDACTED***)"

\* No byte that continues a character stands alone and no character of
\* several bytes is cut off (utf8.ValidString on the bytes of the model).
ValidText(s) ==
    \A i \in 1 .. Len(s) :
        /\ SubSeq(s, i, i) = "~" => (i > 1 /\ SubSeq(s, i - 1, i - 1) \in {"^", "~"})
        /\ SubSeq(s, i, i) = "^" => (i < Len(s) /\ SubSeq(s, i + 1, i + 1) = "~")

\* The latest call formatted one parameter whose rendering is longer than
\* FormatParamMaxLen bytes.
TruncatingCall ==
    /\ last.op = "FormatFunctionCallMaxLen"
    /\ Len(last.args) = 1
    /\ Len(Fprint(last.args[1])) > FormatParamMaxLen

Layers(err) == SelectSeq(Chain(err), IsCallStackProvider)

\* The rendered call entry of a call-stack layer.
CallEntry(e) ==
    IF IsCallStackParamsProvider(e) THEN formatCallStackParams(e) ELSE formatCallStack(e)

RECURSIVE EntriesInnermostFirst(_)
\* The call entries of the layers, a line group each, the last layer of
\* the list first.
EntriesInnermostFirst(layers) ==
    IF layers = <<>> THEN ""
    ELSE EntriesInnermostFirst(Tail(layers)) \o CallEntry(Head(layers)) \o "\n"

\* The first node of the chain that is not a call-stack layer.
FirstWithoutStack(err) ==
    LET k == CHOOSE k \in 1 .. Len(Chain(err)) :
                 /\ ~IsCallStackProvider(Chain(err)[k])
                 /\ \A j \in 1 .. (k - 1) : IsCallStackProvider(Chain(err)[j])
    IN  Chain(err)[k]

\* C21: the Error() text of a call-stack-wrapped error is the message of
\* the first node of its chain that is not a call-stack layer, then one
\* call entry per call-stack layer of the chain, the innermost layer first
\* and the outermost layer last.
C21_ErrorTextInnermostFirst ==
    (last.op = "Error" /\ IsCallStackProvider(Arg))
        => last.retStr = Error(FirstWithoutStack(Arg)) \o "\n"
                             \o EntriesInnermostFirst(Layers(Arg))

\* Error() was called on a bare layer over a parameterized layer over a
\* context layer over another parameterized layer: three different call
\* entries, the one of the outermost layer last.
C21_Witness ==
    /\ last.op = "Error"
    /\ Len(Chain(Arg)) = 5
    /\ Arg.type = "withCallStack"
    /\ Chain(Arg)[2].type = "withCallStackFuncParams"
    /\ Chain(Arg)[2].params = <<"p0">>
    /\ Chain(Arg)[3].type = "errWrapper"
    /\ Chain(Arg)[4].type = "withCallStackFuncParams"
    /\ Chain(Arg)[4].params = <<>>
    /\ CallStack(Arg) # "" /\ CallStack(Chain(Arg)[2]) # "" /\ CallStack(Chain(Arg)[4]) # ""
    /\ Contains(last.retStr, CallEntry(Chain(Arg)[2]) \o "\n" \o CallEntry(Arg) \o "\n")

\* The text has the form of a resolved frame: a function, then the
\* indented file and line.
FrameForm(s) == Contains(s, "\n    ") /\ Contains(s, ":")

\* C22: when the captured call stack of a layer resolves to zero frames,
\* the layer's call entry is a placeholder in place of the frame text, and
\* Error() returns normally.
C22_ZeroFramesRenderPlaceholder ==
    last.op = "Error"
        => /\ ~last.panics
           /\ \A k \in 1 .. Len(Layers(Arg)) :
                  ~CallersFramesNext(CallStack(Layers(Arg)[k])).ok
                      => /\ CallEntry(Layers(Arg)[k]) # ""
                         /\ ~FrameForm(CallEntry(Layers(Arg)[k]))
                         /\ Contains(last.retStr, CallEntry(Layers(Arg)[k]))

\* The latest deferred call was a RecoverPanicAsError or a
\* RecoverPanicAsErrorWithFuncParams that has returned; last.args[1] is the
\* *result it found and Top the *result it left.
RecoveredAsError ==
    /\ last.op \in {"RecoverPanicAsError", "RecoverPanicAsErrorWithFuncParams"}
    /\ last.pc = "returned"

\* C23 as stated: a panic recovered while *result holds a non-nil error
\* leaves a *result that wraps the panic-derived error and still carries
\* the previously set error; without a panic *result is left unchanged.
C23_PanicChainedWithPreviousError ==
    RecoveredAsError
        => /\ (last.p # Nil /\ Arg # Nil)
                  => /\ \E k \in 1 .. Len(PreOrder(Top)) : PreOrder(Top)[k] = AsError(last.p)
                     /\ \E k \in 1 .. Len(PreOrder(Top)) : PreOrder(Top)[k] = Arg
           /\ last.p = Nil => Top = Arg

\* C23 amended: the new *result wraps the panic-derived error, if the
\* recovered value converts to one, and carries the Error() text of the
\* previously set error in its own message; without a panic *result is
\* left unchanged.
C23_PanicChainedWithPreviousText ==
    RecoveredAsError
        => /\ (last.p # Nil /\ Arg # Nil)
                  => /\ AsError(last.p) # Nil
                            => \E k \in 1 .. Len(PreOrder(Top)) : PreOrder(Top)[k] = AsError(last.p)
                     /\ Top.type \in {"wrapError", "errorString"}
                     /\ Contains(Top.msg, "(" \o Error(Arg) \o ") panicked with: ")
           /\ last.p = Nil => Top = Arg

\* A panic with the error e0 was recovered while *result held e1: the new
\* *result wraps e0 and names e1 in its message, and e1 is no node of it.
C23_Witness ==
    /\ RecoveredAsError
    /\ last.p = Sentinel(SentinelText(0))
    /\ Arg = Sentinel(SentinelText(1))
    /\ errorsIs(Top, Sentinel(SentinelText(0)))
    /\ ~errorsIs(Top, Sentinel(SentinelText(1)))
    /\ Contains(Error(Top), SentinelText(1))

\* The non-nil errors of a list, in order.
NonNil(errs) == SelectSeq(errs, LAMBDA e : e # Nil)

\* C24: AsError(nil) is nil; an error is returned as the same value; a
\* list of errors gives the combination of its non-nil errors, in order,
\* with the Error() text of their Combine; a string, a value with a
\* String() method and any other value give a leaf error with the string,
\* the String() text and the formatted text.  A non-nil input yields nil
\* only if it is a list of errors without a non-nil error.
C24_AsErrorClassifies ==
    last.op = "AsError"
        => /\ Arg = Nil => last.retErr = Nil
           /\ IsError(Arg) => last.retErr = Arg
           /\ Arg.type = "[]error"
                  => /\ last.retErr = Nil <=> NonNil(Arg.errs) = <<>>
                     /\ last.retErr = Nil <=> Combine(Arg.errs) = Nil
                     /\ last.retErr # Nil
                            => /\ last.retErr.errs = NonNil(Arg.errs)
                               /\ IsError(last.retErr)
                               /\ Error(last.retErr) = Error(Combine(Arg.errs))
           /\ Arg.type \in {"string", "stringer", "int"}
                  => /\ IsError(last.retErr)
                     /\ last.retErr.errs = <<>>
                     /\ Error(last.retErr) = Arg.msg
           /\ (Arg # Nil /\ last.retErr = Nil)
                  => (Arg.type = "[]error" /\ \A i \in 1 .. Len(Arg.errs) : Arg.errs[i] = Nil)

\* AsError was called with the list e0, nil, e1 and returned one error
\* with the children e0 and e1 and their texts on two lines.
C24_Witness ==
    /\ last.op = "AsError"
    /\ Arg = errorList(<<Sentinel(SentinelText(0)), Nil, Sentinel(SentinelText(1))>>)
    /\ last.retErr.errs = <<Sentinel(SentinelText(0)), Sentinel(SentinelText(1))>>
    /\ Error(last.retErr) = SentinelText(0) \o "\n" \o SentinelText(1)

Loggers == {"LogPanicWithFuncParams", "RecoverAndLogPanicWithFuncParams"}

\* C28: LogPanicWithFuncParams logs exactly one message before it panics
\* again with the value it recovered, and the panic then propagates;
\* RecoverAndLogPanicWithFuncParams logs one message and returns with no
\* panic in flight; without a panic neither of them logs or panics.
C28_LogThenRepanic ==
    last.op \in Loggers
        => /\ last.pc \in {"recover", "log"} => last.log = <<>>
           /\ last.pc \in {"panic", "panicking"}
                  => /\ last.op = "LogPanicWithFuncParams"
                     /\ Len(last.log) = 1
                     /\ last.log[1] = last.op \o ": "
                                          \o Error(wrapWithFuncParamsSkip(
                                                 AsErrorWithDebugStack(last.args[3]), last.args[2]))
           /\ last.pc = "panicking" => (last.inflight = last.args[3] /\ last.inflight # Nil)
           /\ last.pc # "panicking" => last.inflight \in {Nil, last.args[3]}
           /\ last.pc = "returned"
                  => /\ last.inflight = Nil
                     /\ last.args[3] = Nil => last.log = <<>>
                     /\ last.args[3] # Nil
                            => (last.op = "RecoverAndLogPanicWithFuncParams" /\ Len(last.log) = 1)

\* LogPanicWithFuncParams has logged the panic "pw" of a function with one
\* parameter and the panic is in flight again.
C28_Witness ==
    /\ last.op = "LogPanicWithFuncParams"
    /\ last.pc = "panicking"
    /\ last.args[2] = <<"p0">>
    /\ last.inflight = stringValue("pw")
    /\ Len(last.log) = 1
    /\ Contains(last.log[1], "LogPanicWithFuncParams: pw")

\* The LogDecisionMakers of the chain of err, outermost first.
DecisionMakers(err) == SelectSeq(Chain(err), IsLogDecisionMaker)

DontLogWrapped(err) == err # Nil /\ UnwrapCallStack(err).type = "dontLog"

\* C29: DontLog(nil) is nil; ShouldLog of DontLog(err) is false for every
\* non-nil err, also over a LogDecisionMaker that says true, and it is
\* false for the DontLog result under any call-stack layers that
\* WrapWithCallStack and WrapWithFuncParams have put on it.
C29_DontLogStaysFalse ==
    /\ last.op = "DontLog"
           => /\ Arg = Nil => last.retErr = Nil
              /\ Arg # Nil => (DontLogWrapped(last.retErr) /\ ~ShouldLog(last.retErr))
    /\ (last.op \in {"WrapWithCallStack", "WrapWithFuncParams"} /\ DontLogWrapped(Arg))
           => (DontLogWrapped(last.retErr) /\ ~ShouldLog(last.retErr))
    /\ (last.op = "ShouldLog" /\ DontLogWrapped(Arg)) => ~last.retBool

\* ShouldLog returned false for DontLog of a decision maker that says true
\* after a bare call-stack layer on it was replaced by a parameterized one.
C29_Witness ==
    /\ last.op = "ShouldLog"
    /\ Arg.type = "withCallStackFuncParams"
    /\ CallStack(Arg) = callStack("WrapWithCallStackSkip")
    /\ Unwrap(Arg) = dontLog(testDecisionMaker(TRUE))
    /\ ~last.retBool

\* C26 as stated: Root, As, Has, Type, IsType and UnwrapCallStack terminate
\* and return on every input, a chain whose unwrap leads back to a node
\* already visited included: every call that has entered its loop returns.
C26_TraversalTerminates ==
    (last.threads[1].pc = "loop") ~> (last.threads[1].pc = "returned")

\* The call of goroutine k has taken only steps that the same call, run on
\* its own over the caller's errors, takes as well; once it has returned,
\* its result is the result of the call run on its own.
AsRunAlone(k) ==
    LET t == last.threads[k]
        start == TraversalStart(t.op, t.root, stack)
    IN  /\ \E n \in 0 .. (Len(stack) + 1) : t = TraversalRun(start, stack, n)
        /\ t.pc = "returned" => t = TraversalRun(start, stack, Len(stack) + 1)

C30_UncombineSharesNoStorage ==
    [][OverwriteElement =>
          \A a \in 1 .. Len(stack) :
              (IsSlice(stack[a]) /\ stack[a].type = "multiError")
                  => /\ Deref(stack'[a], stack') = Deref(stack[a], stack)
                     /\ Error(Deref(stack'[a], stack')) = Error(Deref(stack[a], stack))
                     /\ \A e \in 1 .. Len(stack) :
                            stack[e].type = "Sentinel"
                                => errorsIs(Deref(stack'[a], stack'), stack[e])
                                       = errorsIs(Deref(stack[a], stack), stack[e])]_vars

====
